---- MODULE Spec2Model ----
(***************************************************************************)
(* Photo Filter Studio: the state machine of src/App.jsx.                  *)
(*                                                                         *)
(* The App component holds four pieces of React state (image, filters,    *)
(* showOriginal, theme) and a canvas ref.  Every handler is one action;   *)
(* the React re-render that follows a state change is part of the action. *)
(* The state updates of one handler are applied together (React batches   *)
(* the setImage/setFilters pair of the FileReader callback).               *)
(*                                                                         *)
(* FilteredImage, FilterControls, FilterPreviewGallery and ImageUploader  *)
(* are imported by App.jsx but their code is not part of the sources at   *)
(* hand; what the model needs of them is taken from spec.md and marked so. *)
(***************************************************************************)
EXTENDS Integers, FiniteSets, Sequences, TLC

VARIABLES
    image,         \* useState(null), line 11: the data URL of the loaded file
    filters,       \* useState({...}), lines 12-18: the filter parameter set
    showOriginal,  \* useState(false), line 19: hold-to-compare flag
    theme,         \* useState('dark'), line 20
    readers,       \* FileReaders created by handleImageUpload, not yet fired
    issued,        \* number of FileReaders created so far (issue order)
    newest,        \* the latest-issued upload among those whose onload fired
    pending,       \* live surface: the parameter set waiting to be rendered
    stale,         \* live surface: superseded renders still in flight
    canvas,        \* live surface: what canvasRef.current holds
    download,      \* the file produced by the step just taken, if any
    lastOp         \* the handler that ran last

vars == <<image, filters, showOriginal, theme, readers, issued, newest,
          pending, stale, canvas, download, lastOp>>

----------------------------------------------------------------------------
(* Bounds of the model *)

NumFiles == 1

MaxUploads == 2

MaxStale == 2

SliderStep == 100

----------------------------------------------------------------------------
(* Values *)

\* spec.md section 3: brightness and contrast range over [0, 200] percent
MinPercent == 0

MaxPercent == 200

FlagNames == {"grayscale", "sepia", "invert"}

PercentNames == {"brightness", "contrast"}

FilterNames == FlagNames \cup PercentNames

\* The files a user can pick: NumFiles images and a file that is no image
\* (accept="image/*", line 161, is a hint to the file dialog).
Files ==
    {[id |-> i, decodable |-> TRUE] : i \in 1..NumFiles}
        \cup {[id |-> NumFiles + 1, decodable |-> FALSE]}

\* image === null
NoImage == [id |-> 0, decodable |-> FALSE]

\* no upload has fired yet
NoUpload == [file |-> NoImage, seq |-> 0]

\* a parameter set with no field
NoFilters == [n \in {} |-> FALSE]

\* no file / a canvas nothing was drawn on / no pending render
Nothing == [image |-> NoImage, filters |-> NoFilters]

\* no file was produced by the step
NoDownload == [produced |-> FALSE, content |-> Nothing]

----------------------------------------------------------------------------
(* Collaborators of App.jsx whose code is not at hand (from spec.md) *)

\* FilterControls: the positions a slider can be put at
SliderValues == {v \in MinPercent..MaxPercent : v % SliderStep = 0}

\* FilterControls: the (filterName, value) pairs it passes to onFilterChange.
\* The model operates one switch and one slider: handleFilterChange treats
\* every name alike.
ControlInputs ==
    ({"invert"} \X BOOLEAN) \cup ({"brightness"} \X SliderValues)

\* FilterPreviewGallery: the preset catalogue, a static list of complete
\* parameter sets (spec.md sections 1 and 6)
Presets ==
    { [grayscale |-> FALSE, sepia |-> FALSE, invert |-> FALSE,
       brightness |-> 100, contrast |-> 100],
      [grayscale |-> FALSE, sepia |-> FALSE, invert |-> TRUE,
       brightness |-> 100, contrast |-> 100] }

----------------------------------------------------------------------------
(* App.jsx: values and what is rendered *)

\* lines 12-18
InitialFilters ==
    [grayscale |-> FALSE, sepia |-> FALSE, invert |-> FALSE,
     brightness |-> 100, contrast |-> 100]

\* OnloadFilters with a slip in one field
OnloadFiltersDark ==
    [grayscale |-> FALSE, sepia |-> FALSE, invert |-> FALSE,
     brightness |-> 0, contrast |-> 100]

\* lines 37-43
OnloadFilters ==
    [grayscale |-> FALSE, sepia |-> FALSE, invert |-> FALSE,
     brightness |-> 100, contrast |-> 100]

\* ResetFilters that restores the switches and forgets the sliders
ResetFiltersFlagsOnly ==
    [grayscale |-> FALSE, sepia |-> FALSE, invert |-> FALSE]

\* lines 64-70
ResetFilters ==
    [grayscale |-> FALSE, sepia |-> FALSE, invert |-> FALSE,
     brightness |-> 100, contrast |-> 100]

\* lines 178-184
OriginalFilters ==
    [grayscale |-> FALSE, sepia |-> FALSE, invert |-> FALSE,
     brightness |-> 100, contrast |-> 100]

\* FilterUpdate without the spread of prev
FilterUpdateNoSpread(prev, filterName, value) ==
    [n \in {filterName} |-> value]

\* lines 54-57: prev => ({...prev, [filterName]: value})
FilterUpdate(prev, filterName, value) ==
    [n \in (DOMAIN prev) \cup {filterName} |->
        IF n = filterName THEN value ELSE prev[n]]

\* line 98: setFilters(presetFilters)
PresetUpdate(prev, presetFilters) == presetFilters

\* line 90
NextTheme(prev) == IF prev = "dark" THEN "light" ELSE "dark"

\* EditorMounted with the editor rendered whether or not there is an image
EditorAlwaysMounted(img) == TRUE

\* lines 122-126: the uploader is shown while there is no image, the editor
\* (controls, FilteredImage, compare button, gallery) once there is one
EditorMounted(img) == img # NoImage

\* The state of the live surface: there is none until the editor is shown.
SurfaceState(img) == IF EditorMounted(img) THEN "Ready" ELSE "Empty"

\* SurfaceProps that passes the user's filters even while comparing
SurfacePropsIgnoreCompare(img, flt, show) ==
    IF img = NoImage THEN Nothing ELSE [image |-> img, filters |-> flt]

\* SurfaceProps with the two branches of the conditional exchanged
SurfacePropsSwapped(img, flt, show) ==
    IF img = NoImage THEN Nothing
    ELSE [image |-> img,
          filters |-> IF show THEN flt
                      ELSE [grayscale |-> FALSE, sepia |-> FALSE,
                            invert |-> FALSE, brightness |-> 100,
                            contrast |-> 100]]

\* lines 176-186: the props FilteredImage is rendered with
SurfaceProps(img, flt, show) ==
    IF ~EditorMounted(img) THEN Nothing
    ELSE [image |-> img, filters |-> IF show THEN OriginalFilters ELSE flt]

LiveSurfaceProps == SurfaceProps(image, filters, showOriginal)

\* canvasRef.current (line 21, 185): the canvas FilteredImage mounts
CanvasRefCurrent == IF EditorMounted(image) THEN "canvas" ELSE "null"

----------------------------------------------------------------------------
(* The live surface behind FilteredImage (spec.md sections 4.3 and 5):     *)
(* a change of props supersedes the pending render; a superseded render   *)
(* still in flight is discarded when it arrives.                          *)

IssueRender(new) ==
    IF new = LiveSurfaceProps
    THEN UNCHANGED <<pending, stale, canvas>>
    ELSE /\ pending # Nothing => stale < MaxStale
         /\ pending' = new
         /\ stale' = IF pending # Nothing THEN stale + 1 ELSE stale
         /\ canvas' = canvas

RenderComplete ==
    /\ pending # Nothing
    /\ canvas' = pending
    /\ pending' = Nothing
    /\ download' = NoDownload
    /\ lastOp' = "render"
    /\ UNCHANGED <<image, filters, showOriginal, theme, readers, issued,
                   newest, stale>>

StaleRenderArrives ==
    /\ stale > 0
    /\ stale' = stale - 1
    /\ download' = NoDownload
    /\ lastOp' = "discard"
    /\ UNCHANGED <<image, filters, showOriginal, theme, readers, issued,
                   newest, pending, canvas>>

----------------------------------------------------------------------------
(* App.jsx: the handlers *)

Init ==
    /\ image = NoImage
    /\ filters = InitialFilters
    /\ showOriginal = FALSE
    /\ theme = "dark"
    /\ readers = {}
    /\ issued = 0
    /\ newest = NoUpload
    /\ pending = Nothing
    /\ stale = 0
    /\ canvas = Nothing
    /\ download = NoDownload
    /\ lastOp = "init"

\* lines 32-46, up to reader.readAsDataURL(file); called by ImageUploader
\* (line 124) and by the Upload New input (lines 162-166)
HandleImageUpload(file) ==
    /\ issued < MaxUploads
    /\ issued' = issued + 1
    /\ readers' = readers \cup {[file |-> file, seq |-> issued + 1]}
    /\ download' = NoDownload
    /\ lastOp' = "upload"
    /\ UNCHANGED <<image, filters, showOriginal, theme, newest, pending, stale, canvas>>

\* FileReaderOnload without the reset of the filters
FileReaderOnloadKeepFilters(r) ==
    /\ r \in readers
    /\ readers' = readers \ {r}
    /\ image' = r.file
    /\ filters' = filters
    /\ newest' = IF r.seq > newest.seq THEN r ELSE newest
    /\ IssueRender(SurfaceProps(r.file, filters, showOriginal))
    /\ download' = NoDownload
    /\ lastOp' = "onload"
    /\ UNCHANGED <<showOriginal, theme, issued>>

\* lines 34-44: reader.onload; readAsDataURL encodes the bytes whatever they
\* are, so it fires for a file that is no image as well
FileReaderOnload(r) ==
    /\ r \in readers
    /\ readers' = readers \ {r}
    /\ image' = r.file
    /\ filters' = OnloadFilters
    /\ newest' = IF r.seq > newest.seq THEN r ELSE newest
    /\ IssueRender(SurfaceProps(r.file, OnloadFilters, showOriginal))
    /\ download' = NoDownload
    /\ lastOp' = "onload"
    /\ UNCHANGED <<showOriginal, theme, issued>>

\* lines 33-45: the read fails; no onerror handler is set
FileReaderError(r) ==
    /\ r \in readers
    /\ readers' = readers \ {r}
    /\ download' = NoDownload
    /\ lastOp' = "onerror"
    /\ UNCHANGED <<image, filters, showOriginal, theme, issued, newest, pending, stale, canvas>>

\* lines 53-58, called by FilterControls (lines 142-145)
HandleFilterChange(filterName, value) ==
    /\ EditorMounted(image)
    /\ filters' = FilterUpdate(filters, filterName, value)
    /\ IssueRender(SurfaceProps(image, filters', showOriginal))
    /\ download' = NoDownload
    /\ lastOp' = "filter"
    /\ UNCHANGED <<image, showOriginal, theme, readers, issued, newest>>

\* lines 63-71, the Reset button (lines 131-138)
HandleResetFilters ==
    /\ EditorMounted(image)
    /\ filters' = ResetFilters
    /\ IssueRender(SurfaceProps(image, filters', showOriginal))
    /\ download' = NoDownload
    /\ lastOp' = "reset"
    /\ UNCHANGED <<image, showOriginal, theme, readers, issued, newest>>

\* lines 97-99, called by FilterPreviewGallery (lines 204-208)
HandlePresetSelect(presetFilters) ==
    /\ EditorMounted(image)
    /\ filters' = PresetUpdate(filters, presetFilters)
    /\ IssueRender(SurfaceProps(image, filters', showOriginal))
    /\ download' = NoDownload
    /\ lastOp' = "preset"
    /\ UNCHANGED <<image, showOriginal, theme, readers, issued, newest>>

\* lines 191 and 194: onMouseDown, onTouchStart
BeginCompare ==
    /\ EditorMounted(image)
    /\ showOriginal' = TRUE
    /\ IssueRender(SurfaceProps(image, filters, showOriginal'))
    /\ download' = NoDownload
    /\ lastOp' = "beginCompare"
    /\ UNCHANGED <<image, filters, theme, readers, issued, newest>>

\* lines 192, 193 and 195: onMouseUp, onMouseLeave, onTouchEnd
EndCompare ==
    /\ EditorMounted(image)
    /\ showOriginal' = FALSE
    /\ IssueRender(SurfaceProps(image, filters, showOriginal'))
    /\ download' = NoDownload
    /\ lastOp' = "endCompare"
    /\ UNCHANGED <<image, filters, theme, readers, issued, newest>>

\* lines 89-91, the theme button (lines 110-116)
ToggleTheme ==
    /\ theme' = NextTheme(theme)
    /\ download' = NoDownload
    /\ lastOp' = "theme"
    /\ UNCHANGED <<image, filters, showOriginal, readers, issued, newest, pending, stale, canvas>>

\* HandleDownload that encodes the image under the user's filters instead of
\* reading the canvas
HandleDownloadFromFilters ==
    /\ EditorMounted(image)
    /\ download' = [produced |-> TRUE,
                    content |-> [image |-> image, filters |-> filters]]
    /\ lastOp' = "download"
    /\ UNCHANGED <<image, filters, showOriginal, theme, readers, issued,
                   newest, pending, stale, canvas>>

\* lines 76-84, the Download button (lines 149-155)
HandleDownload ==
    /\ EditorMounted(image)
    /\ download' = IF CanvasRefCurrent = "null" \/ image = NoImage
                   THEN NoDownload
                   ELSE [produced |-> TRUE, content |-> canvas]
    /\ lastOp' = "download"
    /\ UNCHANGED <<image, filters, showOriginal, theme, readers, issued,
                   newest, pending, stale, canvas>>

Next ==
    \/ \E file \in Files : HandleImageUpload(file)
    \/ \E r \in readers : FileReaderOnload(r)
    \/ \E r \in readers : FileReaderError(r)
    \/ \E in \in ControlInputs : HandleFilterChange(in[1], in[2])
    \/ HandleResetFilters
    \/ \E p \in Presets : HandlePresetSelect(p)
    \/ BeginCompare
    \/ EndCompare
    \/ ToggleTheme
    \/ HandleDownload
    \/ RenderComplete
    \/ StaleRenderArrives

Spec == Init /\ [][Next]_vars

----------------------------------------------------------------------------
(* Properties *)

\* The identity parameter set of spec.md section 3.
IdentitySet ==
    [grayscale |-> FALSE, sepia |-> FALSE, invert |-> FALSE,
     brightness |-> 100, contrast |-> 100]

\* The parameters the live surface should be showing in the current state,
\* written out from the state.
ExpectedSurface ==
    IF image = NoImage THEN Nothing
    ELSE [image |-> image,
          filters |-> IF showOriginal THEN IdentitySet ELSE filters]

\* Whether a parameter set is complete and within its ranges.
CompleteSet(f) ==
    /\ DOMAIN f = FilterNames
    /\ \A n \in FlagNames : f[n] \in BOOLEAN
    /\ \A n \in PercentNames : f[n] \in MinPercent..MaxPercent

\* C1: hold-to-compare never changes the filter settings: a begin-compare
\* and an end-compare step leave filters unchanged; whenever showOriginal is
\* true the live surface is passed the identity set; after release it is
\* passed filters again.
C1_CompareKeepsFilters ==
    [][ /\ (BeginCompare \/ EndCompare) => filters' = filters
        /\ (showOriginal' /\ image' # NoImage)
              => LiveSurfaceProps' = [image |-> image', filters |-> IdentitySet]
        /\ EndCompare
              => LiveSurfaceProps' = [image |-> image, filters |-> filters]
      ]_vars

\* C1: the button was held and released over non-identity filters: the
\* identity render is still on the canvas, the user's filters are bound again.
C1_Witness ==
    /\ lastOp = "endCompare"
    /\ filters # IdentitySet
    /\ canvas = [image |-> image, filters |-> IdentitySet]
    /\ pending = [image |-> image, filters |-> filters]

\* C2: when the FileReader's onload fires, the filters are the identity set
\* afterwards, and the new image is bound to the live surface with the
\* identity set.
C2_UploadResetsFilters ==
    [][ \A r \in readers :
            FileReaderOnload(r)
               => /\ filters' = IdentitySet
                  /\ LiveSurfaceProps' = [image |-> r.file,
                                          filters |-> IdentitySet]
      ]_vars

\* C2: an upload completed over another image that was rendered with
\* non-identity filters (no render was pending before the load).
C2_Witness ==
    /\ lastOp = "onload"
    /\ stale = 0
    /\ pending # Nothing
    /\ canvas # Nothing
    /\ canvas.image # image
    /\ canvas.filters # IdentitySet
    /\ filters = IdentitySet

\* C3: handleResetFilters yields the identity set, leaves image, showOriginal
\* and theme unchanged, and a second reset changes nothing.
C3_ResetIsSetIdentity ==
    [][ HandleResetFilters
           => /\ filters' = IdentitySet
              /\ UNCHANGED <<image, showOriginal, theme>>
              /\ filters = IdentitySet
                    => UNCHANGED <<filters, pending, stale, canvas>>
      ]_vars

\* C3: a reset of non-identity filters that were on the canvas.
C3_Witness ==
    /\ lastOp = "reset"
    /\ stale = 0
    /\ pending = [image |-> image, filters |-> IdentitySet]
    /\ canvas # Nothing
    /\ canvas.filters # IdentitySet
    /\ filters = IdentitySet
    /\ theme = "light"

\* C4: filters is always a complete parameter set, flags boolean and
\* percentages in [0, 200], and so is every set passed to the live surface.
C4_FiltersComplete ==
    /\ CompleteSet(filters)
    /\ LiveSurfaceProps # Nothing => CompleteSet(LiveSurfaceProps.filters)
    /\ pending # Nothing => CompleteSet(pending.filters)

\* C4: a slider was dragged to the end of its range over a preset, while
\* comparing.
C4_Witness ==
    /\ lastOp = "filter"
    /\ filters["brightness"] = MaxPercent
    /\ filters["invert"]
    /\ showOriginal

C7_ReplaceViaEmpty ==
    [][ (SurfaceState(image) = "Ready" /\ image' # image)
           => SurfaceState(image') = "Empty" ]_vars

\* C7 amended: Empty -> Ready happens on an image load only, Ready is never
\* left, and a load replaces the image in one step with the identity set.
C7_SurfaceStateMachine ==
    [][ /\ (SurfaceState(image) = "Empty" /\ SurfaceState(image') = "Ready")
              => \E r \in readers : FileReaderOnload(r)
        /\ SurfaceState(image) = "Ready" => SurfaceState(image') = "Ready"
        /\ image' # image
              => /\ \E r \in readers : FileReaderOnload(r)
                 /\ filters' = IdentitySet
      ]_vars

\* C7: a second upload replaced the image that is still on the canvas.
C7_Witness ==
    /\ lastOp = "onload"
    /\ SurfaceState(image) = "Ready"
    /\ canvas # Nothing
    /\ canvas.image # image

\* C8: an upload attempt that ends in an error (the read fails, or the file
\* is no decodable image) leaves image, filters and showOriginal as they were.
C8_FailedLoadUntouched ==
    [][ \A r \in readers :
            (FileReaderError(r) \/ (FileReaderOnload(r) /\ ~r.file.decodable))
               => UNCHANGED <<image, filters, showOriginal>>
      ]_vars

\* C9: while image is null no control is enabled, filters is the identity
\* set, showOriginal is false and no file is produced; image never becomes
\* null again.
C9_NothingBeforeImage ==
    /\ [](image = NoImage
            => /\ filters = IdentitySet
               /\ ~showOriginal
               /\ ~download.produced
               /\ pending = Nothing /\ canvas = Nothing
               /\ ~ENABLED (\E in \in ControlInputs :
                               HandleFilterChange(in[1], in[2]))
               /\ ~ENABLED HandleResetFilters
               /\ ~ENABLED (\E p \in Presets : HandlePresetSelect(p))
               /\ ~ENABLED BeginCompare
               /\ ~ENABLED EndCompare
               /\ ~ENABLED HandleDownload)
    /\ [][image # NoImage => image' # NoImage]_vars

\* C9: no image yet, after a read that failed and with another in flight.
C9_Witness ==
    /\ image = NoImage
    /\ lastOp = "onerror"
    /\ readers # {}
    /\ theme = "light"

\* C10: once no upload is in flight, the image shown is the one of the
\* upload issued last among those whose onload fired.
C10_IssueOrderWins ==
    (readers = {} /\ newest # NoUpload) => image = newest.file

====
